---- MODULE Spec2Model ----
(***************************************************************************)
(* compose-ref, package internal: PinServiceImages, createTgz and          *)
(* CreateApp / CreateBundle, in the four revisions the repository holds:   *)
(*   "app"       src/unnamed/part_001   registry strategy, placeholder     *)
(*                                      splitting, tag check, ignore-file, *)
(*                                      symlinks, CreateApp                *)
(*   "registry"  src/unnamed/part_002   registry strategy, CreateApp       *)
(*   "engine"    src/unnamed/part_003   engine inspection, services map,   *)
(*                                      CreateBundle                       *)
(*   "config"    src/internal/publish.go engine inspection, typed config,  *)
(*                                      CreateBundle                       *)
(* Strings are sequences of characters (one-character strings); the long   *)
(* well-known words (docker.io, library, docker-compose.yml,               *)
(* .composeappignores, latest, digests) are written as single atoms, each  *)
(* standing for its characters (Spell): the reference grammar and          *)
(* filepath.Match read a string spelled out (Chars).                       *)
(***************************************************************************)
EXTENDS Integers, Sequences, FiniteSets, TLC

VARIABLES
  variant,      \* which revision of the package runs
  services,     \* PinServiceImages: service name -> service record (mutated in place)
  services0,    \* the services as handed to PinServiceImages (history)
  processed,    \* names the range loop has visited, in visiting order
  pinResult,    \* "running" | "nil" | "error" | "panic"
  pinErr,       \* which error PinServiceImages returned
  writes,       \* name -> number of assignments to that service's image
  lastIter,     \* what the last loop iteration did (name, outcome, failed call)
  pc,           \* CreateApp / CreateBundle: position
  fs,           \* the bundling root: walk-ordered sequence of directory entries
  ignoreFile,   \* .composeappignores: whether it exists, can be read, and its lines
  composeLen,   \* len(pinned): length of the serialized descriptor
  walkIdx,      \* filepath.Walk: index of the next entry to visit
  archive,      \* tar writer: sequence of entries written
  warned,       \* createTgz: patterns already announced
  tag,          \* tag the manifest is pushed under
  target,       \* the target reference, as given
  calls,        \* registry calls made, in order
  blobDigest,   \* digest returned by the blob upload
  pubResult,    \* "running" | "nil" | "error"
  failedStep    \* the step of publishing that failed, or "none"

pinVars == <<services, services0, processed, pinResult, pinErr, writes, lastIter>>
pubVars == <<pc, fs, ignoreFile, composeLen, walkIdx, archive, warned, tag, target,
             calls, blobDigest, pubResult, failedStep>>
vars == <<variant, pinVars, pubVars>>

(* ------------------------------ bounds --------------------------------- *)
\* number of services in the descriptor
NumServices == 2
\* largest serialized descriptor length
MaxDescLen == 2
\* largest size of the on-disk docker-compose.yml
MaxFileSize == 2

Variants == {"app", "registry", "engine", "config"}
RegistryVariants == {"app", "registry"}

(* ------------------------------ strings -------------------------------- *)
\* strings.Index for a one-character separator: first position, 0 when absent
IndexFrom(s, c, i) ==
  IF \E k \in i..Len(s) : s[k] = c
  THEN CHOOSE k \in i..Len(s) : s[k] = c /\ \A j \in i..(k - 1) : s[j] # c
  ELSE 0

Index(s, c) == IndexFrom(s, c, 1)

Contains(s, c) == Index(s, c) # 0

\* strings.ContainsAny; the atom docker.io holds a dot
ContainsAny(s, chars) == \E k \in 1..Len(s) : s[k] \in chars

\* s[from..to], empty when from > to
Slice(s, from, to) == IF from > to THEN << >> ELSE SubSeq(s, from, to)

\* strings.SplitAfterN(s, sep, 2): at most two parts, the separator kept in the first
SplitAfterN2(s, sep) ==
  LET i == Index(s, sep)
  IN  IF i = 0 THEN << s >> ELSE << Slice(s, 1, i), Slice(s, i + 1, Len(s)) >>

\* n copies of the character c
Repeat(c, n) == [k \in 1..n |-> c]

\* number of hexadecimal digits of a sha256 digest
HexLen == 64

\* the characters of the words written as one atom; the digest sha256:aaa
\* stands for "sha256:" and 64 times "a" (likewise bbb, ccc), sha512:ddd for
\* "sha512:" and 128 times "d"
Spell(c) ==
  CASE c = "docker-compose.yml" ->
         << "d", "o", "c", "k", "e", "r", "-", "c", "o", "m", "p", "o", "s", "e",
            ".", "y", "m", "l" >>
    [] c = ".composeappignores" ->
         << ".", "c", "o", "m", "p", "o", "s", "e", "a", "p", "p", "i", "g", "n",
            "o", "r", "e", "s" >>
    [] c = "docker.io" -> << "d", "o", "c", "k", "e", "r", ".", "i", "o" >>
    [] c = "library" -> << "l", "i", "b", "r", "a", "r", "y" >>
    [] c = "latest" -> << "l", "a", "t", "e", "s", "t" >>
    [] c = "sha256:aaa" -> << "s", "h", "a", "2", "5", "6", ":" >> \o Repeat("a", HexLen)
    [] c = "sha256:bbb" -> << "s", "h", "a", "2", "5", "6", ":" >> \o Repeat("b", HexLen)
    [] c = "sha256:ccc" -> << "s", "h", "a", "2", "5", "6", ":" >> \o Repeat("c", HexLen)
    [] c = "sha512:ddd" -> << "s", "h", "a", "5", "1", "2", ":" >> \o Repeat("d", 2 * HexLen)
    [] OTHER -> << c >>

\* a string written out character by character
RECURSIVE Chars(_)
Chars(s) ==
  IF Len(s) = 0 THEN << >>
  ELSE IF Len(s) = 1 THEN Spell(s[1])
  ELSE Chars(SubSeq(s, 1, Len(s) \div 2)) \o Chars(SubSeq(s, Len(s) \div 2 + 1, Len(s)))

\* index of the first element of s whose characters hold c, 0 when none
FirstHolding(s, c, k) ==
  IF \E i \in k..Len(s) : Contains(Spell(s[i]), c)
  THEN CHOOSE i \in k..Len(s) :
         Contains(Spell(s[i]), c) /\ \A j \in k..(i - 1) : ~Contains(Spell(s[j]), c)
  ELSE 0

\* the word s[k] is sp, and c is its j-th character
CutParts(s, k, sp, j) ==
  [found |-> TRUE,
   before |-> Slice(s, 1, k - 1) \o Slice(sp, 1, j - 1),
   after |-> Slice(sp, j + 1, Len(sp)) \o Slice(s, k + 1, Len(s))]

CutWord(s, c, k, sp) == CutParts(s, k, sp, Index(sp, c))

CutAt(s, c, k) ==
  IF k = 0 THEN [found |-> FALSE, before |-> s, after |-> << >>]
  ELSE CutWord(s, c, k, Spell(s[k]))

\* s cut at the first occurrence of the character c (strings.IndexRune and the
\* two slices around it); a word is spelled out only when c lies inside it
Cut(s, c) == CutAt(s, c, FirstHolding(s, c, 1))

(* ----------------------------- references ------------------------------ *)
DefaultDomain == << "docker.io" >>
OfficialRepoName == << "library" >>
\* docker.io written out, and the legacy name that stands for it
DefaultDomainChars == << "d", "o", "c", "k", "e", "r", ".", "i", "o" >>
LegacyDefaultDomain ==
  << "i", "n", "d", "e", "x", ".", "d", "o", "c", "k", "e", "r", ".", "i", "o" >>
Localhost == << "l", "o", "c", "a", "l", "h", "o", "s", "t" >>
\* digest algorithms the digest package knows, with the number of hexadecimal
\* digits each one writes
DigestAlgorithms ==
  { [name |-> << "s", "h", "a", "2", "5", "6" >>, hex |-> 64],
    [name |-> << "s", "h", "a", "3", "8", "4" >>, hex |-> 96],
    [name |-> << "s", "h", "a", "5", "1", "2" >>, hex |-> 128] }
\* NameTotalLengthMax: the longest name (domain "/" path) reference.Parse takes
NameTotalLengthMax == 255
\* the longest tag: [\w][\w.-]{0,127}
TagLengthMax == 128
Digits == {"0", "1", "2", "3", "4", "5", "6", "7", "8", "9"}
LowerLetters ==
  {"a", "b", "c", "d", "e", "f", "g", "h", "i", "j", "k", "l", "m", "n", "o", "p", "q",
   "r", "s", "t", "u", "v", "w", "x", "y", "z"}
UpperLetters ==
  {"A", "B", "C", "D", "E", "F", "G", "H", "I", "J", "K", "L", "M", "N", "O", "P", "Q",
   "R", "S", "T", "U", "V", "W", "X", "Y", "Z"}
\* lower-case alphanumerics: [a-z0-9]
NameChars == LowerLetters \cup Digits
\* word characters: [\w]
WordChars == NameChars \cup UpperLetters \cup {"_"}
\* characters a tag may hold after its first: [\w.-]
TagChars == WordChars \cup {".", "-"}
\* hexadecimal digits: [a-f0-9]
HexChars == {"a", "b", "c", "d", "e", "f"} \cup Digits
\* digests a reference may carry after "@"
RefDigests == {"sha256:aaa", "sha256:bbb", "sha256:ccc", "sha512:ddd"}
NoRef == [ok |-> FALSE, domain |-> << >>, path |-> << >>, tagged |-> FALSE, tag |-> << >>,
          digested |-> FALSE, digest |-> << >>]

\* strings.Split(s, sep) for a one-character separator
RECURSIVE Split(_, _)
Split(s, sep) ==
  LET i == Index(s, sep)
  IN  IF i = 0 THEN << s >>
      ELSE << Slice(s, 1, i - 1) >> \o Split(Slice(s, i + 1, Len(s)), sep)

\* domain-component: [a-zA-Z0-9] | [a-zA-Z0-9][a-zA-Z0-9-]*[a-zA-Z0-9]
IsDomainLabel(c) ==
  /\ Len(c) > 0
  /\ \A k \in 1..Len(c) : c[k] \in NameChars \cup UpperLetters \cup {"-"}
  /\ c[1] # "-" /\ c[Len(c)] # "-"

AllDomainLabels(labels) == \A k \in 1..Len(labels) : IsDomainLabel(labels[k])

\* port-number: [0-9]+
IsPort(port) == Len(port) > 0 /\ \A k \in 1..Len(port) : port[k] \in Digits

\* the characters c of a domain, colon the index of their first ":"
IsDomainAt(c, colon) ==
  IF colon = 0 THEN AllDomainLabels(Split(c, "."))
  ELSE /\ AllDomainLabels(Split(Slice(c, 1, colon - 1), "."))
       /\ IsPort(Slice(c, colon + 1, Len(c)))

IsDomainChars(c) == IsDomainAt(c, Index(c, ":"))

\* domain: domain-component ("." domain-component)* (":" port-number)?
IsDomainComponent(s) == IsDomainChars(Chars(s))

\* path-component: alpha-numeric (separator alpha-numeric)*, the separator one
\* of ".", "_", "__" or a run of "-"
IsPathComponent(c) ==
  /\ Len(c) > 0
  /\ \A k \in 1..Len(c) : c[k] \in NameChars \cup {".", "_", "-"}
  /\ c[1] \in NameChars /\ c[Len(c)] \in NameChars
  /\ \A k \in 2..(Len(c) - 1) :
       /\ c[k] = "." => (c[k - 1] \in NameChars /\ c[k + 1] \in NameChars)
       /\ c[k] = "-" => (c[k - 1] \in NameChars \cup {"-"} /\ c[k + 1] \in NameChars \cup {"-"})
       /\ c[k] = "_" =>
            \/ c[k - 1] \in NameChars /\ c[k + 1] \in NameChars
            \/ c[k - 1] \in NameChars /\ c[k + 1] = "_" /\ c[k + 2] \in NameChars
            \/ c[k - 1] = "_" /\ c[k - 2] \in NameChars /\ c[k + 1] \in NameChars

AllPathComponents(parts) == \A k \in 1..Len(parts) : IsPathComponent(parts[k])

\* path: path-component ("/" path-component)*
IsPath(s) == AllPathComponents(Split(Chars(s), "/"))

IsTagChars(c) ==
  /\ Len(c) > 0
  /\ Len(c) <= TagLengthMax
  /\ c[1] \in WordChars
  /\ \A k \in 1..Len(c) : c[k] \in TagChars

\* tag: [\w][\w.-]{0,127}
IsTag(s) == IsTagChars(Chars(s))

\* the characters c are the algorithm alg, ":" and its number of hexadecimal digits
IsDigestOf(c, alg) ==
  /\ Len(c) = Len(alg.name) + 1 + alg.hex
  /\ SubSeq(c, 1, Len(alg.name) + 1) = alg.name \o << ":" >>
  /\ \A k \in (Len(alg.name) + 2)..Len(c) : c[k] \in HexChars

IsDigestChars(c) == \E alg \in DigestAlgorithms : IsDigestOf(c, alg)

\* digest: the digest grammar of the reference and digest.Parse after it:
\* "sha256:", "sha384:" or "sha512:" and 64, 96 or 128 hexadecimal digits
IsDigest(s) == IsDigestChars(Chars(s))

IsIdentifierChars(c) == Len(c) = HexLen /\ \A k \in 1..Len(c) : c[k] \in HexChars

\* anchoredIdentifierRegexp: a bare 64-digit hexadecimal identifier
IsIdentifier(s) == IsIdentifierChars(Chars(s))

\* splitDockerDomain, last step: the official repository prefix
SplitRemainder(domain, rem) ==
  [domain |-> domain,
   remainder |-> IF domain = DefaultDomain /\ ~Contains(Chars(rem), "/")
                 THEN OfficialRepoName \o << "/" >> \o rem ELSE rem]

\* splitDockerDomain: the legacy default domain stands for the default one
SplitDomain(given, rem) ==
  SplitRemainder(IF Chars(given) \in {DefaultDomainChars, LegacyDefaultDomain}
                 THEN DefaultDomain ELSE given, rem)

\* splitDockerDomain: c is name cut at its first "/"
SplitHead(name, c, dflt) ==
  SplitDomain(IF dflt THEN DefaultDomain ELSE c.before, IF dflt THEN name ELSE c.after)

SplitCut(name, c) ==
  SplitHead(name, c,
            \/ ~c.found
            \/ /\ ~ContainsAny(Chars(c.before), {".", ":"})
               /\ Chars(c.before) # Localhost)

\* reference.splitDockerDomain
splitDockerDomain(name) == SplitCut(name, Cut(name, "/"))

\* reference.Parse: the name, domain "/" path, is at most NameTotalLengthMax long
NameFits(domain, path) ==
  Len(Chars(domain)) + 1 + Len(Chars(path)) <= NameTotalLengthMax

\* anchoredNameRegexp on the name head "/" rest: the head is the domain when it
\* is one; otherwise the domain is empty and the head is the first component
\* of the path
NameOf(head, rest, asDomain) ==
  [domain |-> IF asDomain THEN head ELSE << >>,
   path |-> IF asDomain THEN rest ELSE head \o << "/" >> \o rest]

\* the reference Parse builds from the matches of ReferenceRegexp
RefOf(name, at, tagSep) ==
  [ok |-> TRUE, domain |-> name.domain, path |-> name.path,
   tagged |-> tagSep.found, tag |-> tagSep.after,
   digested |-> at.found, digest |-> at.after]

\* reference.Parse on the split name: at is the remainder cut at "@", tagSep
\* the part before it cut at ":"
ParseTag(s, sp, at, tagSep) ==
  IF /\ ~IsIdentifier(s)
     /\ IsDomainComponent(sp.domain) \/ IsPathComponent(Chars(sp.domain))
     /\ IsPath(tagSep.before)
     /\ (~tagSep.found \/ IsTag(tagSep.after))
     /\ (~at.found \/ IsDigest(at.after))
     /\ NameFits(sp.domain, tagSep.before)
  THEN RefOf(NameOf(sp.domain, tagSep.before, IsDomainComponent(sp.domain)), at, tagSep)
  ELSE NoRef

ParseAt(s, sp, at) == ParseTag(s, sp, at, Cut(at.before, ":"))

ParseSplit(s, sp) == ParseAt(s, sp, Cut(sp.remainder, "@"))

\* reference.ParseNormalizedNamed: domain, path and optional tag of an image string
ParseNormalizedNamed(s) == ParseSplit(s, splitDockerDomain(s))

\* reference.TagNameOnly: a name-only reference gets the tag "latest"
TagNameOnly(named) ==
  IF ~named.tagged /\ ~named.digested
  THEN [named EXCEPT !.tagged = TRUE, !.tag = << "latest" >>]
  ELSE named
(* --------------------------- PinServiceImages --------------------------- *)
ServiceNames == 1..NumServices

\* image strings a descriptor may carry
Images ==
  { << "n", ":", "s" >>,                              \* n:s
    << "n" >>,                                        \* n (no tag)
    << "r", ".", "i", "/", "n", ":", "v" >>,          \* r.i/n:v
    << "n", ":", "i" >>,                              \* n:i, a tag the registry lacks
    << "N", ":", "s" >>,                              \* upper case: unparsable
    << "N", ".", "i", "/", "n", "-", "docker.io", ":", "s" >>, \* N.i/n-docker.io:s
    << "a", "_", "b", ".", "c", "/", "n", ":", "s" >>, \* a_b.c/n:s, a_b.c is no domain
    << "n", ":", "s", "@", "sha256:bbb" >>,           \* n:s@sha256:bbb, tag and digest
    << "n", "@", "sha512:ddd" >>,                     \* n@sha512:ddd, digest only
    << >>,                                            \* the empty string
    << "$" >>,
    << "$", "V" >>,
    << "$", "{", "V", "}" >>,                         \* ${V}
    << "$", "{", "V", "-", "n", ":", "s", "}" >> }    \* ${V-n:s}

\* a service record: obj.(map[string]interface{}), svc["image"], obj.(string)
ServiceValues ==
  { [shape |-> "notmap", image |-> << >>],
    [shape |-> "noimage", image |-> << >>],
    [shape |-> "nonstring", image |-> << >>] }
  \cup { [shape |-> "string", image |-> s] : s \in Images }

NoDigest == ""
\* the digest the registry (or the engine, which asks it) holds for a tag
DigestOf(t) ==
  CASE Chars(t) = << "s" >> -> "sha256:aaa"
    [] Chars(t) = << "v" >> -> "sha256:bbb"
    [] Chars(t) = Chars(<< "latest" >>) -> "sha256:ccc"
    [] OTHER -> NoDigest

\* what the collaborators answer during one loop iteration: the registry calls
\* in the registry strategy, the engine's inspection in the other
Outcomes(v) ==
  IF v \in RegistryVariants
  THEN {o \in [repoOk : BOOLEAN, tagOk : BOOLEAN, manSvcOk : BOOLEAN,
               man : {"list", "schema2", "oci", "fail"}, inspectOk : {TRUE}] :
          \* a call that is not made (after a failed GetRepository, or on the
          \* nil manifest service) or that fails anyway (the fetch by the zero
          \* digest of a failed tag lookup) has one answer
          /\ ~o.repoOk => (o.tagOk /\ o.manSvcOk)
          /\ (~o.repoOk \/ ~o.tagOk \/ ~o.manSvcOk) => o.man = "list"}
  ELSE [repoOk : {TRUE}, tagOk : {TRUE}, manSvcOk : {TRUE}, man : {"list"},
        inspectOk : BOOLEAN]

Res(outcome, err, pinned, failedCall) ==
  [outcome |-> outcome, err |-> err, pinned |-> pinned, failedCall |-> failedCall]

\* the ${variable-defval} splitting of the "app" revision
\* yields [outcome, err, image]
Placeholder(image) ==
  IF Len(image) < 1 THEN [outcome |-> "panic", err |-> "index", image |-> image]
  ELSE IF image[1] # "$" THEN [outcome |-> "ok", err |-> "none", image |-> image]
  ELSE IF Len(image) < 2 THEN [outcome |-> "panic", err |-> "index", image |-> image]
  ELSE IF image[2] # "{" \/ image[Len(image)] # "}"
       THEN [outcome |-> "error", err |-> "placeholder", image |-> image]
  ELSE LET parts == SplitAfterN2(image, "-")
       IN  IF Len(parts) # 2
           THEN [outcome |-> "error", err |-> "nodefault", image |-> image]
           ELSE [outcome |-> "ok", err |-> "none",
                 image |-> Slice(parts[2], 1, Len(parts[2]) - 1)]

\* string(desc.Digest): the zero digest is the empty string
DigestString(digest) == IF digest = NoDigest THEN << >> ELSE << digest >>

\* reference.Domain(named) + "/" + reference.Path(named) + "@" + digest
Pinned(named, digest) ==
  named.domain \o << "/" >> \o named.path \o << "@" >> \o digest

\* repo.Tags(ctx).Get(ctx, tag): the descriptor's digest, the zero value on failure
TagsGet(t, out) == IF out.tagOk THEN DigestOf(t) ELSE NoDigest

\* mansvc.Get(ctx, desc.Digest): the manifest's kind, "nil" on failure
ManifestGet(digest, out) ==
  IF digest = NoDigest \/ out.man = "fail" THEN "nil" ELSE out.man

\* the registry strategy, from GetRepository to the manifest switch
ResolveRegistry(v, named, out) ==
  IF ~out.repoOk THEN Res("error", "repo", << >>, "repo")
  ELSE IF ~named.tagged
       THEN IF v = "app" THEN Res("error", "untagged", << >>, "none")
            ELSE Res("panic", "assertion", << >>, "none")
  ELSE LET digest == TagsGet(named.tag, out)
           tagFailed == digest = NoDigest
           pinned == Pinned(named, DigestString(digest))
       IN  IF ~out.manSvcOk
           THEN Res("panic", "nil", << >>, IF tagFailed THEN "tags" ELSE "mansvc")
           ELSE LET man == ManifestGet(digest, out)
                    failed == IF tagFailed THEN "tags"
                              ELSE IF man = "nil" THEN "manget" ELSE "none"
                IN  IF man \in {"list", "schema2"}
                    THEN Res("ok", "none", pinned, failed)
                    ELSE Res("error", "unexpected_manifest", << >>, failed)

\* cli.DistributionInspect(ctx, image, ""): the engine answers the digest
\* written in the reference when it carries one, otherwise the digest of its
\* tag, "latest" when it has none; no digest when the inspection fails
DistributionInspect(named, out) ==
  IF ~out.inspectOk THEN << >>
  ELSE IF named.digested THEN named.digest
  ELSE DigestString(DigestOf(IF named.tagged THEN named.tag ELSE << "latest" >>))

\* the engine-inspection strategy
ResolveEngine(named, out) ==
  LET digest == DistributionInspect(named, out)
  IN  IF digest = << >> THEN Res("error", "inspect", << >>, "inspect")
      ELSE Res("ok", "none", Pinned(named, digest), "none")

\* one iteration of the loop body over a service record
PinOne(v, svc, out) ==
  IF svc.shape = "notmap" THEN Res("error", "invalid_format", << >>, "none")
  ELSE IF svc.shape = "noimage" THEN Res("error", "missing_image", << >>, "none")
  ELSE IF svc.shape = "nonstring" THEN Res("error", "invalid_image", << >>, "none")
  ELSE LET ph == IF v = "app" THEN Placeholder(svc.image)
                 ELSE [outcome |-> "ok", err |-> "none", image |-> svc.image]
       IN  IF ph.outcome # "ok" THEN Res(ph.outcome, ph.err, << >>, "none")
           ELSE LET named == ParseNormalizedNamed(ph.image)
                IN  IF ~named.ok THEN Res("error", "parse", << >>, "none")
                    ELSE IF v \in RegistryVariants
                         THEN ResolveRegistry(v, named, out)
                         ELSE ResolveEngine(named, out)
\* mutation: the name comparison of the write-back loop is lost, every service is written
WriteBackAll(svcs, name, pinned) ==
  [n \in DOMAIN svcs |-> [shape |-> "string", image |-> pinned]]

\* svc["image"] = pinned; config.Services[i].Image = pinned for the first i of that name
WriteBack(svcs, name, pinned) ==
  [svcs EXCEPT ![name] = [shape |-> "string", image |-> pinned]]

\* every services map over some of the names
ServiceMaps == UNION {[names -> ServiceValues] : names \in SUBSET ServiceNames}

NoIter == [name |-> 0, outcome |-> "none", failedCall |-> "none"]

\* the services a caller may hand over; the typed config holds strings only
PinInit ==
  /\ variant \in Variants
  /\ services \in ServiceMaps
  /\ variant = "config" => \A n \in DOMAIN services : services[n].shape = "string"
  /\ services0 = services
  /\ processed = << >>
  /\ pinResult = "running"
  /\ pinErr = "none"
  /\ writes = [n \in DOMAIN services |-> 0]
  /\ lastIter = NoIter

Visited == {processed[k] : k \in 1..Len(processed)}

\* one iteration of "for name, obj := range services" (any order), ending the
\* call when the body returns an error or crashes
PinStep ==
  /\ pinResult = "running"
  /\ \E name \in DOMAIN services \ Visited :
     \E out \in Outcomes(variant) :
     \E r \in {PinOne(variant, services[name], out)} :
           /\ processed' = Append(processed, name)
           /\ lastIter' = [name |-> name, outcome |-> r.outcome,
                           failedCall |-> r.failedCall]
           /\ IF r.outcome = "ok"
              THEN /\ services' = WriteBack(services, name, r.pinned)
                   /\ writes' = [writes EXCEPT ![name] = @ + 1]
                   /\ UNCHANGED <<pinResult, pinErr>>
              ELSE /\ pinResult' = r.outcome
                   /\ pinErr' = r.err
                   /\ UNCHANGED <<services, writes>>
  /\ UNCHANGED <<variant, services0, pubVars>>

\* the loop is over: return nil
PinReturn ==
  /\ pinResult = "running"
  /\ DOMAIN services \ Visited = {}
  /\ pinResult' = "nil"
  /\ UNCHANGED <<variant, services, services0, processed, pinErr, writes, lastIter, pubVars>>
(* ------------------------------ createTgz ------------------------------- *)
DescriptorName == "docker-compose.yml"
IgnoreName == ".composeappignores"
Separator == "/"
\* the bundling root CreateApp / CreateBundle passes: "./"
AppDir == << ".", "/" >>

\* strings.Replace(s, old, "", -1): every non-overlapping occurrence removed
RECURSIVE RemoveAll(_, _)
RemoveAll(s, old) ==
  IF Len(s) = 0 THEN << >>
  ELSE IF Len(s) >= Len(old) /\ SubSeq(s, 1, Len(old)) = old
       THEN RemoveAll(Slice(s, Len(old) + 1, Len(s)), old)
       ELSE << s[1] >> \o RemoveAll(Tail(s), old)

\* strings.TrimPrefix(s, sep) for a one-character prefix
TrimPrefix(s, c) == IF Len(s) > 0 /\ s[1] = c THEN Tail(s) ELSE s

\* header.Name: the walked path with the root removed and a leading separator stripped
HeaderName(file, appDir) == TrimPrefix(RemoveAll(file, appDir), Separator)

\* fi.Name(): the last element of the walked path
RECURSIVE BaseName(_)
BaseName(file) ==
  LET i == Index(file, Separator)
  IN  IF i = 0 THEN file ELSE BaseName(Slice(file, i + 1, Len(file)))

\* filepath.Match on characters: "*" any run of non-separators, "?" one
\* non-separator character, anything else itself
RECURSIVE GlobMatch(_, _)
GlobMatch(p, n) ==
  IF Len(p) = 0 THEN Len(n) = 0
  ELSE IF p[1] = "*"
       THEN \/ GlobMatch(Tail(p), n)
            \/ Len(n) > 0 /\ n[1] # Separator /\ GlobMatch(p, Tail(n))
  ELSE IF p[1] = "?"
       THEN Len(n) > 0 /\ n[1] # Separator /\ GlobMatch(Tail(p), Tail(n))
  ELSE Len(n) > 0 /\ n[1] = p[1] /\ GlobMatch(Tail(p), Tail(n))

\* match, err := filepath.Match(pattern, name); err == nil && match. A "[" is
\* never closed here ("]" is in no string): no match, or ErrBadPattern
Match(pattern, name) ==
  ~Contains(pattern, "[") /\ GlobMatch(Chars(pattern), Chars(name))

\* strings.Join(elems, sep)
RECURSIVE Join(_, _)
Join(elems, sep) ==
  IF Len(elems) = 0 THEN << >>
  ELSE IF Len(elems) = 1 THEN elems[1]
  ELSE elems[1] \o << sep >> \o Join(Tail(elems), sep)

\* filepath.Clean, the elements kept after the "." and ".." rules: empty and
\* "." elements dropped, ".." removes the element before it, stays when there
\* is none and the path is relative, and is dropped at the root
RECURSIVE CleanElems(_, _, _)
CleanElems(elems, rooted, kept) ==
  IF Len(elems) = 0 THEN kept
  ELSE LET e == elems[1]
           up == << ".", "." >>
       IN  IF e = << >> \/ e = << "." >> THEN CleanElems(Tail(elems), rooted, kept)
           ELSE IF e # up THEN CleanElems(Tail(elems), rooted, Append(kept, e))
           ELSE IF Len(kept) > 0 /\ kept[Len(kept)] # up
                THEN CleanElems(Tail(elems), rooted, Slice(kept, 1, Len(kept) - 1))
           ELSE IF rooted THEN CleanElems(Tail(elems), rooted, kept)
           ELSE CleanElems(Tail(elems), rooted, Append(kept, e))

CleanBody(rooted, body) ==
  IF rooted THEN << Separator >> \o body
  ELSE IF Len(body) = 0 THEN << "." >> ELSE body

CleanRooted(path, rooted) ==
  CleanBody(rooted, Join(CleanElems(Split(path, Separator), rooted, << >>), Separator))

\* filepath.Clean(path)
Clean(path) == CleanRooted(path, Len(path) > 0 /\ path[1] = Separator)

\* white space a line may hold
Blank == {" "}

RECURSIVE TrimLeft(_)
TrimLeft(s) == IF Len(s) > 0 /\ s[1] \in Blank THEN TrimLeft(Tail(s)) ELSE s

RECURSIVE TrimRight(_)
TrimRight(s) ==
  IF Len(s) > 0 /\ s[Len(s)] \in Blank THEN TrimRight(Slice(s, 1, Len(s) - 1)) ELSE s

\* strings.TrimSpace
TrimSpace(s) == TrimRight(TrimLeft(s))

\* a leading separator stripped
StripRoot(cleaned) ==
  IF Len(cleaned) > 1 /\ cleaned[1] = Separator THEN Tail(cleaned) ELSE cleaned

\* a non-empty pattern cleaned and made relative
Relative(body) == IF Len(body) > 0 THEN StripRoot(Clean(body)) ELSE body

NormalizeTrimmed(pattern) ==
  IF pattern[1] = "!" THEN << "!" >> \o Relative(TrimSpace(Tail(pattern)))
  ELSE Relative(pattern)

\* dockerignore.ReadAll on one kept line: trimmed, a leading "!" set aside and
\* the rest trimmed again, cleaned and made relative, the "!" put back
NormalizePattern(line) == NormalizeTrimmed(TrimSpace(line))

\* a line ReadAll keeps: no comment (a "#" first, before any trimming) and not
\* empty once trimmed
IsPatternLine(line) ==
  /\ ~(Len(line) > 0 /\ line[1] = "#")
  /\ Len(TrimSpace(line)) > 0

\* the patterns of the lines, in order
RECURSIVE Patterns(_)
Patterns(lines) ==
  IF Len(lines) = 0 THEN << >>
  ELSE IF IsPatternLine(lines[1])
       THEN << NormalizePattern(lines[1]) >> \o Patterns(Tail(lines))
       ELSE Patterns(Tail(lines))

\* dockerignore.ReadAll: comment lines and blank lines dropped, the others
\* normalized; nil (no element) when no line is left, and nil with an error
\* when the scanner fails (a read error, a line longer than the scanner's buffer)
ReadAll(lines, readOk) == IF readOk THEN Patterns(lines) ELSE << >>

\* getIgnores: nil when the file cannot be opened; the error of ReadAll is
\* dropped; the file's own name is appended only when ReadAll gave a non-nil list
getIgnores(ignFile) ==
  IF ~ignFile.exists THEN << >>
  ELSE LET ignores == ReadAll(ignFile.lines, ignFile.readOk)
       IN  IF Len(ignores) # 0 THEN Append(ignores, << IgnoreName >>) ELSE ignores

\* index of the first pattern matching name, 0 when none
RECURSIVE FirstMatch(_, _, _)
FirstMatch(ignores, name, k) ==
  IF k > Len(ignores) THEN 0
  ELSE IF Match(ignores[k], name) THEN k ELSE FirstMatch(ignores, name, k + 1)

NoEntry == [name |-> << >>, typeflag |-> "none", size |-> 0, data |-> 0]
WalkRes(status, entry, pattern) == [status |-> status, entry |-> entry, pattern |-> pattern]

\* tar.Writer: WriteHeader(header) then the bytes that follow; a header-only
\* type (symlink) takes no bytes whatever the size field says
TarEntry(name, e, content) ==
  LET isDesc == BaseName(e.path) = << DescriptorName >>
      size == IF isDesc THEN content ELSE IF e.kind = "reg" THEN e.size ELSE 0
  IN  [name |-> name, typeflag |-> e.kind, size |-> size,
       data |-> IF e.kind = "reg" THEN size ELSE 0]

\* os.Readlink(header.Name), from the working directory (the bundling root):
\* it succeeds when a symlink lives at that very path
ReadlinkOk(disk, name) ==
  \E k \in 1..Len(disk) : disk[k].path = name /\ disk[k].kind = "symlink"

\* the walk callback of the "app" revision: ignore patterns, symlinks
WalkFnApp(e, content, ignores, disk, statOk, hdrOk, openOk, writeOk, copyOk) ==
  LET name == HeaderName(e.path, AppDir)
      m == FirstMatch(ignores, name, 1)
      isDesc == BaseName(e.path) = << DescriptorName >>
  IN  IF ~statOk THEN WalkRes("error", NoEntry, << >>)
      ELSE IF e.kind = "dir" THEN WalkRes("dir", NoEntry, << >>)
      ELSE IF ~hdrOk THEN WalkRes("error", NoEntry, << >>)
      ELSE IF m # 0 THEN WalkRes("ignored", NoEntry, ignores[m])
      ELSE IF e.kind \notin {"reg", "symlink"} THEN WalkRes("error", NoEntry, << >>)
      ELSE IF e.kind = "symlink" /\ ~ReadlinkOk(disk, name)
           THEN WalkRes("error", NoEntry, << >>)
      ELSE IF ~writeOk THEN WalkRes("error", NoEntry, << >>)
      ELSE IF e.kind = "reg" /\ ~isDesc /\ (~openOk \/ ~copyOk)
           THEN WalkRes("error", NoEntry, << >>)
      ELSE WalkRes("written", TarEntry(name, e, content), << >>)

\* the walk callback of the other revisions: regular files only
WalkFnPlain(e, content, statOk, hdrOk, openOk, writeOk, copyOk) ==
  LET name == HeaderName(e.path, AppDir)
      isDesc == BaseName(e.path) = << DescriptorName >>
  IN  IF ~statOk THEN WalkRes("error", NoEntry, << >>)
      ELSE IF e.kind = "dir" THEN WalkRes("dir", NoEntry, << >>)
      ELSE IF e.kind # "reg" THEN WalkRes("error", NoEntry, << >>)
      ELSE IF ~hdrOk \/ ~writeOk THEN WalkRes("error", NoEntry, << >>)
      ELSE IF ~isDesc /\ (~openOk \/ ~copyOk) THEN WalkRes("error", NoEntry, << >>)
      ELSE WalkRes("written", TarEntry(name, e, content), << >>)

\* what the file system and the tar writer answer during one callback
WalkOutcomes ==
  [statOk : BOOLEAN, hdrOk : BOOLEAN, openOk : BOOLEAN, writeOk : BOOLEAN,
   copyOk : BOOLEAN]

WalkFn(v, e, content, ignFile, disk, out) ==
  IF v = "app"
  THEN WalkFnApp(e, content, getIgnores(ignFile), disk, out.statOk, out.hdrOk,
                 out.openOk, out.writeOk, out.copyOk)
  ELSE WalkFnPlain(e, content, out.statOk, out.hdrOk, out.openOk, out.writeOk,
                   out.copyOk)
(* ----------------------- the bundling root on disk ---------------------- *)
Entry(path, kind, size) == [path |-> path, kind |-> kind, size |-> size]

IgnoreFile(exists, readOk, lines) == [exists |-> exists, readOk |-> readOk, lines |-> lines]

\* ignore-file contents: absent, empty, a comment only, a blank line only, and
\* pattern lists (rooted, "./"-prefixed, padded and "!" lines among them);
\* two of them fail while they are read
IgnoreFiles ==
  { IgnoreFile(FALSE, TRUE, << >>),
    IgnoreFile(TRUE, TRUE, << >>),
    IgnoreFile(TRUE, TRUE, << << "#" >> >>),
    IgnoreFile(TRUE, TRUE, << << " " >> >>),
    IgnoreFile(TRUE, TRUE, << << "s", "/", "*" >> >>),
    IgnoreFile(TRUE, FALSE, << << "s", "/", "*" >> >>),
    IgnoreFile(TRUE, TRUE, << << "#" >>, << " ", "/", "a", " " >>, << ".", "/", "s", "/", "*" >> >>),
    IgnoreFile(TRUE, TRUE, << << "*" >> >>),
    IgnoreFile(TRUE, FALSE, << << "*" >> >>),
    IgnoreFile(TRUE, TRUE, << << "a", "b" >>, << "[" >>, << "!", " ", "a" >> >>),
    IgnoreFile(TRUE, TRUE, << << "?" >> >>),
    IgnoreFile(TRUE, TRUE, << << "*", "s" >> >>) }

Present(kind, seq) == IF kind = "absent" THEN << >> ELSE seq

\* filepath.Walk("./"): the root, then the names in lexical order, depth first
WalkOrder(ign, a, ab, dc, dcSize, sb) ==
  << Entry(AppDir, "dir", 0) >>
  \o Present(IF ign.exists THEN "reg" ELSE "absent", << Entry(<< IgnoreName >>, "reg", 1) >>)
  \o Present(a, << Entry(<< "a" >>, a, 1) >>)
  \o Present(ab, << Entry(<< "a", "." >>, "dir", 0),
                   Entry(<< "a", ".", "/", "b" >>, ab, 1) >>)
  \o Present(dc, << Entry(<< DescriptorName >>, dc, dcSize) >>)
  \o Present(sb, << Entry(<< "s" >>, "dir", 0),
                   Entry(<< "s", "/", "b" >>, sb, 1) >>)

\* target references a caller may pass
Targets ==
  { << "r", ".", "i", "/", "n" >>,                    \* r.i/n
    << "r", ".", "i", "/", "n", ":", "v" >>,          \* r.i/n:v
    << "n", ":", "latest" >>,
    << "r", ".", "i", "/", "n", "@", "sha256:aaa" >>, \* digest only
    << "N" >> }                                       \* unparsable

\* digests the registry may return for the uploaded blob
BlobDigests == {"sha256:b1", "sha256:b2"}

\* media types of the two blobs a publish uploads
ArchiveMediaType == "application/tar+gzip"
ConfigMediaType == "application/vnd.oci.image.config.v1+json"
\* digest.FromBytes([]byte{}): the digest of the empty config
ConfigDigest == "sha256:e3b0"

Call(op, mediaType, t, digest, ok) ==
  [op |-> op, mediaType |-> mediaType, tag |-> t, digest |-> digest, ok |-> ok]

PinIdle ==
  /\ services = << >>
  /\ services0 = << >>
  /\ processed = << >>
  /\ pinResult = "idle"
  /\ pinErr = "none"
  /\ writes = << >>
  /\ lastIter = NoIter

PubInit ==
  /\ variant \in Variants
  /\ PinIdle
  /\ ignoreFile \in IgnoreFiles
  /\ \E a \in {"absent", "reg", "symlink", "fifo"}, ab \in {"absent", "reg", "symlink"},
        dc \in {"absent", "reg", "symlink"}, sb \in {"absent", "reg", "fifo"},
        dcSize \in 0..MaxFileSize :
       /\ dc # "reg" => dcSize = 0
       /\ fs = WalkOrder(ignoreFile, a, ab, dc, dcSize, sb)
  /\ pc = "marshal"
  /\ composeLen = 0
  /\ walkIdx = 1
  /\ archive = << >>
  /\ warned = {}
  /\ tag = << >>
  /\ target = << >>
  /\ calls = << >>
  /\ blobDigest = NoDigest
  /\ pubResult = "running"
  /\ failedStep = "none"

PubIdle ==
  /\ ignoreFile = IgnoreFile(FALSE, TRUE, << >>)
  /\ fs = << >>
  /\ pc = "idle"
  /\ composeLen = 0
  /\ walkIdx = 1
  /\ archive = << >>
  /\ warned = {}
  /\ tag = << >>
  /\ target = << >>
  /\ calls = << >>
  /\ blobDigest = NoDigest
  /\ pubResult = "idle"
  /\ failedStep = "none"

\* the publish operation returns err (a failed step) or nil
Return(result, step) ==
  /\ pc' = "done"
  /\ pubResult' = result
  /\ failedStep' = step

\* yaml.Marshal(config)
Marshal ==
  /\ pc = "marshal"
  /\ \E ok \in BOOLEAN, n \in 1..MaxDescLen :
       IF ok THEN /\ composeLen' = n
                  /\ pc' = "walk"
                  /\ UNCHANGED <<pubResult, failedStep>>
             ELSE /\ Return("error", "marshal")
                  /\ UNCHANGED composeLen
  /\ UNCHANGED <<variant, pinVars, fs, ignoreFile, walkIdx, archive, warned, tag,
                 target, calls, blobDigest>>

\* createTgz: the walk callback on the next entry
WalkStep ==
  /\ pc = "walk"
  /\ walkIdx <= Len(fs)
  /\ \E out \in WalkOutcomes :
     \E r \in {WalkFn(variant, fs[walkIdx], composeLen, ignoreFile, fs, out)} :
           /\ archive' = IF r.status = "written" THEN Append(archive, r.entry) ELSE archive
           /\ warned' = IF r.status = "ignored" THEN warned \cup {r.pattern} ELSE warned
           /\ IF r.status = "error"
              THEN /\ Return("error", "archive")
                   /\ UNCHANGED walkIdx
              ELSE /\ walkIdx' = walkIdx + 1
                   /\ UNCHANGED <<pc, pubResult, failedStep>>
  /\ UNCHANGED <<variant, pinVars, fs, ignoreFile, composeLen, tag, target, calls,
                 blobDigest>>

\* createTgz: the walk is over, the buffer is returned
WalkEnd ==
  /\ pc = "walk"
  /\ walkIdx > Len(fs)
  /\ pc' = "parse"
  /\ UNCHANGED <<variant, pinVars, fs, ignoreFile, composeLen, walkIdx, archive, warned,
                 tag, target, calls, blobDigest, pubResult, failedStep>>

\* mutation: the tag of the target is never read
TargetTagDefault(named) == << "latest" >>

\* tag := "latest"; if TagNameOnly(named) is Tagged, its tag
TargetTag(named) ==
  LET tagged == TagNameOnly(named)
  IN  IF tagged.tagged THEN tagged.tag ELSE << "latest" >>

\* reference.ParseNormalizedNamed(target) and the tag to push under
ParseTarget ==
  /\ pc = "parse"
  /\ \E t \in Targets :
       LET named == ParseNormalizedNamed(t)
       IN  /\ target' = t
           /\ IF named.ok
              THEN /\ tag' = TargetTag(named)
                   /\ pc' = "repo"
                   /\ UNCHANGED <<pubResult, failedStep>>
              ELSE /\ Return("error", "parse")
                   /\ UNCHANGED tag
  /\ UNCHANGED <<variant, pinVars, fs, ignoreFile, composeLen, walkIdx, archive, warned,
                 calls, blobDigest>>

\* regc.GetRepository(ctx, named)
GetRepository ==
  /\ pc = "repo"
  /\ \E ok \in BOOLEAN :
       IF ok THEN pc' = "blob" /\ UNCHANGED <<pubResult, failedStep>>
             ELSE Return("error", "repo")
  /\ UNCHANGED <<variant, pinVars, fs, ignoreFile, composeLen, walkIdx, archive, warned,
                 tag, target, calls, blobDigest>>

\* what the function returns when blobStore.Put fails
BlobFailureResult == "nil"

\* blobStore.Put(ctx, "application/tar+gzip", buff)
BlobPut ==
  /\ pc = "blob"
  /\ \E ok \in BOOLEAN, d \in BlobDigests :
       IF ok THEN /\ blobDigest' = d
                  /\ calls' = Append(calls, Call("blob.put", ArchiveMediaType, << >>, d, TRUE))
                  /\ pc' = "build"
                  /\ UNCHANGED <<pubResult, failedStep>>
             ELSE /\ calls' = Append(calls, Call("blob.put", ArchiveMediaType, << >>, NoDigest, FALSE))
                  /\ Return(BlobFailureResult, "blob")
                  /\ UNCHANGED blobDigest
  /\ UNCHANGED <<variant, pinVars, fs, ignoreFile, composeLen, walkIdx, archive, warned,
                 tag, target>>

\* mb.AppendReference(desc); mb.Build(ctx): the builder asks the blob store
\* for the config blob (Stat) and uploads it (Put) when the store says
\* ErrBlobUnknown; any other Stat error, or a failed Put, fails the build
ManifestBuild ==
  /\ pc = "build"
  /\ \E stat \in {"known", "unknown", "error"}, putOk \in BOOLEAN :
     \E statCall \in {Call("blob.stat", "", << >>, ConfigDigest, stat = "known")} :
     \E putCall \in {Call("blob.put", ConfigMediaType, << >>, ConfigDigest, putOk)} :
       CASE stat = "known" ->
              /\ calls' = Append(calls, statCall)
              /\ pc' = "manifests"
              /\ UNCHANGED <<pubResult, failedStep>>
         [] stat = "error" ->
              /\ calls' = Append(calls, statCall)
              /\ Return("error", "build")
         [] stat = "unknown" /\ putOk ->
              /\ calls' = calls \o << statCall, putCall >>
              /\ pc' = "manifests"
              /\ UNCHANGED <<pubResult, failedStep>>
         [] stat = "unknown" /\ ~putOk ->
              /\ calls' = calls \o << statCall, putCall >>
              /\ Return("error", "build")
  /\ UNCHANGED <<variant, pinVars, fs, ignoreFile, composeLen, walkIdx, archive, warned,
                 tag, target, blobDigest>>

\* repo.Manifests(ctx, nil)
ManifestService ==
  /\ pc = "manifests"
  /\ \E ok \in BOOLEAN :
       IF ok THEN pc' = "put" /\ UNCHANGED <<pubResult, failedStep>>
             ELSE Return("error", "manifests")
  /\ UNCHANGED <<variant, pinVars, fs, ignoreFile, composeLen, walkIdx, archive, warned,
                 tag, target, calls, blobDigest>>

\* mutation: AppendReference is given the zero descriptor
ManifestLayerZero(desc) == NoDigest

\* the layer the manifest carries: the descriptor AppendReference was given
ManifestLayer(desc) == desc

\* svc.Put(ctx, manifest, distribution.WithTag(tag)); return err
ManifestPut ==
  /\ pc = "put"
  /\ \E ok \in BOOLEAN :
       /\ calls' = Append(calls, Call("manifest.put", "", tag, ManifestLayer(blobDigest), ok))
       /\ IF ok THEN Return("nil", "none") ELSE Return("error", "put")
  /\ UNCHANGED <<variant, pinVars, fs, ignoreFile, composeLen, walkIdx, archive, warned,
                 tag, target, blobDigest>>

(* ---------------------------- specifications ---------------------------- *)
PinNext == PinStep \/ PinReturn
InitPin == PinInit /\ PubIdle
SpecPin == InitPin /\ [][PinNext]_vars

PubNext ==
  \/ Marshal \/ WalkStep \/ WalkEnd \/ ParseTarget \/ GetRepository
  \/ BlobPut \/ ManifestBuild \/ ManifestService \/ ManifestPut
SpecPublish == PubInit /\ [][PubNext]_vars
(* ------------------------------- claims --------------------------------- *)
\* createTgz returned the archive (the walk ended without an error)
TgzBuilt ==
  \/ pc \in {"parse", "repo", "blob", "build", "manifests", "put"}
  \/ pc = "done" /\ failedStep \notin {"marshal", "archive"}

ArchiveNames == {archive[k].name : k \in 1..Len(archive)}

\* C1: whenever a step of publishing fails, the publish operation returns a
\* non-nil error; a failed blob upload is never reported as success.
C1_FailedStepReturnsError ==
  (pc = "done" /\ failedStep # "none") => pubResult = "error"

\* the image a well-formed tagged reference must be pinned to
ExpectedPinned(image) ==
  LET ref == ParseNormalizedNamed(image)
  IN  ref.domain \o << "/" >> \o ref.path \o << "@", DigestOf(ref.tag) >>

WellFormedTagged(svc) ==
  /\ svc.shape = "string"
  /\ ParseNormalizedNamed(svc.image).ok
  /\ ParseNormalizedNamed(svc.image).tagged

\* C2: after PinServiceImages returns nil, every service that had a well-formed
\* tagged image has image = domain/path@digest-of-its-tag: no tag, a digest,
\* the domain and path of the normalized original; n:s becomes
\* docker.io/library/n@sha256:aaa.
C2_PinnedForm ==
  pinResult = "nil" =>
    \A n \in DOMAIN services0 :
      WellFormedTagged(services0[n]) =>
        /\ services[n].image = ExpectedPinned(services0[n].image)
        /\ DigestOf(ParseNormalizedNamed(services0[n].image).tag) # NoDigest
        /\ ~ParseNormalizedNamed(services[n].image).tagged
        /\ ParseNormalizedNamed(services[n].image).digested
        /\ ParseNormalizedNamed(services[n].image).domain
             = ParseNormalizedNamed(services0[n].image).domain
        /\ ParseNormalizedNamed(services[n].image).path
             = ParseNormalizedNamed(services0[n].image).path
        /\ services0[n].image = << "n", ":", "s" >> =>
             services[n].image =
               << "docker.io", "/", "library", "/", "n", "@", "sha256:aaa" >>

\* errors handed back from a failed resolution call
ResolutionErrors == {"repo", "inspect"}

\* C3: in the registry strategy, a failure of any resolution call (repository,
\* tag lookup, manifest service, manifest fetch) makes pinning return a
\* resolution error, and the service's image is not overwritten.
C3_ResolutionFailureReturned ==
  (variant \in RegistryVariants /\ lastIter.failedCall # "none") =>
    /\ pinResult = "error"
    /\ pinErr \in ResolutionErrors
    /\ services[lastIter.name] = services0[lastIter.name]

ParsedImage(v, image) ==
  ParseNormalizedNamed(IF v = "app" THEN Placeholder(image).image ELSE image)

\* the strings a pass may write for an image: domain "/" path "@" digest
WrittenFor(v, image) == {Pinned(ParsedImage(v, image), << d >>) : d \in RefDigests}

C5_DescriptorEntry ==
  TgzBuilt =>
    \E k \in 1..Len(archive) :
      /\ archive[k].name = << DescriptorName >>
      /\ archive[k].size = composeLen
      /\ archive[k].data = composeLen

\* C6: the ignore-file, when it exists at the root, is never an entry of the
\* archive, whatever it holds.
C6_IgnoreFileExcluded ==
  (variant = "app" /\ TgzBuilt /\ ignoreFile.exists) =>
    << IgnoreName >> \notin ArchiveNames

\* some pattern written in the ignore-file matches the name
MatchesIgnoreFile(name) ==
  \E k \in 1..Len(Patterns(ignoreFile.lines)) : Match(Patterns(ignoreFile.lines)[k], name)

\* C7: with the ignore-file support of the "app" revision, every non-directory
\* entry under the root whose archive-relative path (the entry name the walk
\* gives it) matches a pattern of the ignore-file has no entry of that name in
\* the archive, and every other one (the ignore-file aside) has one.
C7_IgnoredIffAbsent ==
  (variant = "app" /\ TgzBuilt) =>
    \A k \in 1..Len(fs) :
      (fs[k].kind # "dir" /\ fs[k].path # << IgnoreName >>) =>
        IF ignoreFile.exists /\ MatchesIgnoreFile(HeaderName(fs[k].path, AppDir))
        THEN HeaderName(fs[k].path, AppDir) \notin ArchiveNames
        ELSE HeaderName(fs[k].path, AppDir) \in ArchiveNames

\* the tag written in the target string, "latest" when it has none
WrittenTag(t) ==
  LET i == Index(t, ":")
  IN  IF i = 0 THEN << "latest" >> ELSE Slice(t, i + 1, Len(t))

\* C8: the manifest is pushed under "latest" when the target carries no tag and
\* under the target's own tag when it carries one.
C8_PushTag ==
  \A k \in 1..Len(calls) :
    calls[k].op = "manifest.put" => calls[k].tag = WrittenTag(target)

\* C8 witness: a manifest pushed for the tagged target r.i/n:v
C8_Witness ==
  /\ target = << "r", ".", "i", "/", "n", ":", "v" >>
  /\ \E k \in 1..Len(calls) :
       calls[k].op = "manifest.put" /\ calls[k].ok /\ calls[k].tag = << "v" >>

\* C9: pinning a service whose image parses but carries no tag returns the
\* "images must be tagged" error and leaves the image unchanged (stated for
\* the iterations in which no collaborator call failed).
C9_UntaggedRejected ==
  (/\ variant \in {"app", "registry", "engine"}
   /\ lastIter.name # 0
   /\ lastIter.failedCall = "none"
   /\ services0[lastIter.name].shape = "string"
   /\ ParseNormalizedNamed(services0[lastIter.name].image).ok
   /\ ~ParseNormalizedNamed(services0[lastIter.name].image).tagged) =>
    /\ pinResult = "error"
    /\ pinErr = "untagged"
    /\ services[lastIter.name] = services0[lastIter.name]

ManifestPuts == {k \in 1..Len(calls) : calls[k].op = "manifest.put"}
\* the uploads of the archive
ArchivePuts ==
  {k \in 1..Len(calls) : calls[k].op = "blob.put" /\ calls[k].mediaType = ArchiveMediaType}

\* C10: a manifest push is attempted at most once and only after the archive's
\* blob upload has succeeded, the manifest references the digest that upload
\* returned, and when the manifest build or push fails the blob stays
\* uploaded: every registry call is a blob stat, a blob upload or the manifest
\* push, none a delete.
C10_TwoStepPublish ==
  /\ Cardinality(ManifestPuts) <= 1
  /\ Cardinality(ArchivePuts) <= 1
  /\ \A k \in 1..Len(calls) : calls[k].op \in {"blob.put", "blob.stat", "manifest.put"}
  /\ \A k \in ManifestPuts :
       /\ k = Len(calls)
       /\ \E j \in ArchivePuts : j < k /\ calls[j].ok /\ calls[k].digest = calls[j].digest
       /\ calls[k].digest \in BlobDigests
       /\ calls[k].digest = blobDigest
  /\ (pc = "done" /\ failedStep \in {"build", "manifests", "put"}) =>
       calls[1] = Call("blob.put", ArchiveMediaType, << >>, blobDigest, TRUE)

\* C10 witness: the manifest push failed after the archive and the config were uploaded
C10_Witness ==
  /\ pc = "done" /\ failedStep = "put" /\ pubResult = "error"
  /\ Len(calls) = 4
  /\ calls[1].op = "blob.put" /\ calls[1].mediaType = ArchiveMediaType /\ calls[1].ok
  /\ calls[2].op = "blob.stat" /\ ~calls[2].ok
  /\ calls[3].op = "blob.put" /\ calls[3].mediaType = ConfigMediaType /\ calls[3].ok
  /\ calls[4].op = "manifest.put" /\ ~calls[4].ok /\ calls[4].digest = calls[1].digest
\* C11: PinServiceImages never terminates abnormally: for every services map
\* (an empty image, "$", a malformed placeholder, an untagged image) and every
\* answer of the registry calls it ends by returning nil or an error, never by
\* a crash (index out of range, failed type assertion, nil dereference).
C11_NeverCrashes ==
  variant \in RegistryVariants => pinResult # "panic"
====
